---------------------------- MODULE Spec2Model ----------------------------
(***************************************************************************)
(* Model of sqlite_tool_mcp_server.py: seven MCP tool handlers that each   *)
(* open a sqlite3 connection, run one statement (or a few, for the schema  *)
(* dump), optionally commit, and return a list describing the outcome.     *)
(*                                                                         *)
(* Python strings are modelled as sequences of one-character strings, so   *)
(* that strip/upper/startswith/LIKE are computed and not assumed.  The     *)
(* sqlite3 engine is modelled for the statements the handlers generate and *)
(* for a fixed sample of raw statements (RawQueries).                      *)
(***************************************************************************)
EXTENDS Integers, Sequences, FiniteSets, TLC

\* ------------------------------------------------------------------------
\* Bounds of the explored store
\* ------------------------------------------------------------------------
MaxRows == 2
MaxRowid == 2

\* ------------------------------------------------------------------------
\* Python str operations
\* ------------------------------------------------------------------------
LowerLetters ==
    <<"a","b","c","d","e","f","g","h","i","j","k","l","m",
      "n","o","p","q","r","s","t","u","v","w","x","y","z">>
UpperLetters ==
    <<"A","B","C","D","E","F","G","H","I","J","K","L","M",
      "N","O","P","Q","R","S","T","U","V","W","X","Y","Z">>
Digits ==
    <<"0","1","2","3","4","5","6","7","8","9">>

Range(s) == {s[i] : i \in 1..Len(s)}

UpperChar(c) ==
    IF \E i \in 1..26 : LowerLetters[i] = c
    THEN UpperLetters[CHOOSE i \in 1..26 : LowerLetters[i] = c]
    ELSE c

LowerChar(c) ==
    IF \E i \in 1..26 : UpperLetters[i] = c
    THEN LowerLetters[CHOOSE i \in 1..26 : UpperLetters[i] = c]
    ELSE c

\* str.upper()
Upper(s) == [i \in 1..Len(s) |-> UpperChar(s[i])]

\* str.lower()
Lower(s) == [i \in 1..Len(s) |-> LowerChar(s[i])]

IsSpace(c) == c \in {" ", "\t", "\n", "\r"}

RECURSIVE LStrip(_)
LStrip(s) ==
    IF s # <<>> /\ IsSpace(Head(s)) THEN LStrip(Tail(s)) ELSE s

RECURSIVE RStrip(_)
RStrip(s) ==
    IF s # <<>> /\ IsSpace(s[Len(s)]) THEN RStrip(SubSeq(s, 1, Len(s) - 1)) ELSE s

\* str.strip()
Strip(s) == RStrip(LStrip(s))

\* str.startswith(prefix)
StartsWith(s, prefix) ==
    /\ Len(prefix) <= Len(s)
    /\ SubSeq(s, 1, Len(prefix)) = prefix

\* "sub in s"
Contains(s, sub) ==
    \E i \in 0..(Len(s) - Len(sub)) : SubSeq(s, i + 1, i + Len(sub)) = sub

\* str(n) for the small non-negative integers of the model
IntStr(n) == <<Digits[n + 1]>>

\* ------------------------------------------------------------------------
\* String literals of the source, the sample arguments and sqlite messages
\* ------------------------------------------------------------------------
S_SELECT ==
    <<"S", "E", "L", "E", "C", "T">>
S_error ==
    <<"e", "r", "r", "o", "r">>
S_rows_affected ==
    <<"r", "o", "w", "s", "_", "a", "f", "f", "e", "c", "t", "e", "d">>
S_inserted_id ==
    <<"i", "n", "s", "e", "r", "t", "e", "d", "_", "i", "d">>
S_success ==
    <<"s", "u", "c", "c", "e", "s", "s">>
S_message ==
    <<"m", "e", "s", "s", "a", "g", "e">>
S_table ==
    <<"t", "a", "b", "l", "e">>
S_columns ==
    <<"c", "o", "l", "u", "m", "n", "s">>
S_name ==
    <<"n", "a", "m", "e">>
S_type ==
    <<"t", "y", "p", "e">>
S_notnull ==
    <<"n", "o", "t", "n", "u", "l", "l">>
S_default ==
    <<"d", "e", "f", "a", "u", "l", "t">>
S_primary_key ==
    <<"p", "r", "i", "m", "a", "r", "y", "_", "k", "e", "y">>
S_id ==
    <<"i", "d">>
S_age ==
    <<"a", "g", "e">>
S_v ==
    <<"v">>
S_t ==
    <<"t">>
S_sqlitex ==
    <<"s", "q", "l", "i", "t", "e", "x">>
S_nosuch ==
    <<"n", "o", "s", "u", "c", "h">>
S_1x ==
    <<"1", "x">>
S_TEXT ==
    <<"T", "E", "X", "T">>
S_INTEGER ==
    <<"I", "N", "T", "E", "G", "E", "R">>
S_REAL ==
    <<"R", "E", "A", "L">>
S_NUMERIC ==
    <<"N", "U", "M", "E", "R", "I", "C">>
S_BLOB ==
    <<"B", "L", "O", "B">>
S_DATE ==
    <<"D", "A", "T", "E">>
S_DATETIME ==
    <<"D", "A", "T", "E", "T", "I", "M", "E">>
S_like_pattern ==
    <<"s", "q", "l", "i", "t", "e", "_", "%">>
S_reserved_prefix ==
    <<"s", "q", "l", "i", "t", "e", "_">>
S_dup_col ==
    <<"d", "u", "p", "l", "i", "c", "a", "t", "e", " ", "c", "o", "l", "u", "m", "n", " ", "n", "a", "m", "e">>
S_no_such_table ==
    <<"n", "o", " ", "s", "u", "c", "h", " ", "t", "a", "b", "l", "e">>
M_no_data ==
    <<"N", "o", " ", "d", "a", "t", "a", " ", "p", "r", "o", "v", "i", "d", "e", "d">>
M_both_required ==
    <<"B", "o", "t", "h", " ", "'", "d", "a", "t", "a", "'", " ", "a", "n", "d", " ", "'", "w", "h", "e", "r", "e", "'", " ", "m", "u", "s", "t", " ", "b", "e", " ", "p", "r", "o", "v", "i", "d", "e", "d">>
M_where_required ==
    <<"'", "w", "h", "e", "r", "e", "'", " ", "c", "o", "n", "d", "i", "t", "i", "o", "n", " ", "r", "e", "q", "u", "i", "r", "e", "d", " ", "t", "o", " ", "a", "v", "o", "i", "d", " ", "a", "c", "c", "i", "d", "e", "n", "t", "a", "l", " ", "d", "e", "l", "e", "t", "i", "o", "n">>
M_table_empty ==
    <<"T", "a", "b", "l", "e", " ", "n", "a", "m", "e", " ", "c", "a", "n", "n", "o", "t", " ", "b", "e", " ", "e", "m", "p", "t", "y">>
M_column_empty ==
    <<"C", "o", "l", "u", "m", "n", " ", "n", "a", "m", "e", " ", "c", "a", "n", "n", "o", "t", " ", "b", "e", " ", "e", "m", "p", "t", "y">>
M_bad_type ==
    <<"D", "a", "t", "a", " ", "t", "y", "p", "e", " ", "m", "u", "s", "t", " ", "b", "e", " ", "o", "n", "e", " ", "o", "f", ":", " ", "T", "E", "X", "T", ",", " ", "I", "N", "T", "E", "G", "E", "R", ",", " ", "R", "E", "A", "L", ",", " ", "N", "U", "M", "E", "R", "I", "C", ",", " ", "B", "L", "O", "B", ",", " ", "D", "A", "T", "E", ",", " ", "D", "A", "T", "E", "T", "I", "M", "E">>
M_cannot_open ==
    <<"u", "n", "a", "b", "l", "e", " ", "t", "o", " ", "o", "p", "e", "n", " ", "d", "a", "t", "a", "b", "a", "s", "e", " ", "f", "i", "l", "e">>
M_locked ==
    <<"d", "a", "t", "a", "b", "a", "s", "e", " ", "i", "s", " ", "l", "o", "c", "k", "e", "d">>
M_not_a_db ==
    <<"f", "i", "l", "e", " ", "i", "s", " ", "n", "o", "t", " ", "a", " ", "d", "a", "t", "a", "b", "a", "s", "e">>
M_disk_io ==
    <<"d", "i", "s", "k", " ", "I", "/", "O", " ", "e", "r", "r", "o", "r">>
M_syntax_near ==
    <<"n", "e", "a", "r", " ", "\"", "S", "E", "L", "E", "C", "\"", ":", " ", "s", "y", "n", "t", "a", "x", " ", "e", "r", "r", "o", "r">>
M_unrecognized ==
    <<"u", "n", "r", "e", "c", "o", "g", "n", "i", "z", "e", "d", " ", "t", "o", "k", "e", "n", ":", " ", "\"">>
M_no_such_table_ ==
    <<"n", "o", " ", "s", "u", "c", "h", " ", "t", "a", "b", "l", "e", ":", " ">>
M_no_such_column_ ==
    <<"n", "o", " ", "s", "u", "c", "h", " ", "c", "o", "l", "u", "m", "n", ":", " ">>
M_table_ ==
    <<"t", "a", "b", "l", "e", " ">>
M_has_no_column_ ==
    <<" ", "h", "a", "s", " ", "n", "o", " ", "c", "o", "l", "u", "m", "n", " ", "n", "a", "m", "e", "d", " ">>
M_dup_col_ ==
    <<"d", "u", "p", "l", "i", "c", "a", "t", "e", " ", "c", "o", "l", "u", "m", "n", " ", "n", "a", "m", "e", ":", " ">>
M_unique_ ==
    <<"U", "N", "I", "Q", "U", "E", " ", "c", "o", "n", "s", "t", "r", "a", "i", "n", "t", " ", "f", "a", "i", "l", "e", "d", ":", " ">>
M_error_ ==
    <<"e", "r", "r", "o", "r", ":", " ">>
M_sqlite_error_ ==
    <<"S", "Q", "L", "i", "t", "e", " ", "e", "r", "r", "o", "r", ":", " ">>
M_unexpected_ ==
    <<"U", "n", "e", "x", "p", "e", "c", "t", "e", "d", " ", "e", "r", "r", "o", "r", ":", " ">>
M_column_q ==
    <<"C", "o", "l", "u", "m", "n", " ", "'">>
M_q_paren ==
    <<"'", " ", "(">>
M_added ==
    <<")", " ", "a", "d", "d", "e", "d", " ", "t", "o", " ", "t", "a", "b", "l", "e", " ", "'">>
M_q_already ==
    <<"'", " ", "a", "l", "r", "e", "a", "d", "y", " ", "e", "x", "i", "s", "t", "s", " ", "i", "n", " ", "t", "a", "b", "l", "e", " ", "'">>
M_table_q ==
    <<"T", "a", "b", "l", "e", " ", "'">>
M_q_not_exist ==
    <<"'", " ", "d", "o", "e", "s", " ", "n", "o", "t", " ", "e", "x", "i", "s", "t">>
M_q ==
    <<"'">>
S_sqlite_stat1 ==
    <<"s", "q", "l", "i", "t", "e", "_", "s", "t", "a", "t", "1">>
S_FOO ==
    <<"F", "O", "O">>
S_integer ==
    <<"i", "n", "t", "e", "g", "e", "r">>
Q_select_from ==
    <<" ", " ", "S", "E", "L", "E", "C", "T", " ", "*", " ", "F", "R", "O", "M", " ">>
Q_where_rowid ==
    <<" ", "W", "H", "E", "R", "E", " ", "r", "o", "w", "i", "d", " ", "=", " ">>
Q_select_all_t ==
    <<"s", "e", "l", "e", "c", "t", " ", "*", " ", "f", "r", "o", "m", " ", "t">>
Q_select_all_nosuch ==
    <<"S", "e", "l", "e", "c", "t", " ", "*", " ", "F", "r", "o", "m", " ", "n", "o", "s", "u", "c", "h">>
Q_select_error ==
    <<"S", "E", "L", "E", "C", "T", " ", "'", "d", "a", "t", "a", "b", "a", "s", "e", " ", "i", "s", " ", "l", "o", "c", "k", "e", "d", "'", " ", "A", "S", " ", "e", "r", "r", "o", "r">>
Q_select_rows_affected ==
    <<"s", "e", "l", "e", "c", "t", " ", "1", " ", "a", "s", " ", "r", "o", "w", "s", "_", "a", "f", "f", "e", "c", "t", "e", "d">>
Q_with_select ==
    <<"W", "I", "T", "H", " ", "c", " ", "A", "S", " ", "(", "S", "E", "L", "E", "C", "T", " ", "1", " ", "A", "S", " ", "x", ")", " ", "S", "E", "L", "E", "C", "T", " ", "*", " ", "F", "R", "O", "M", " ", "c">>
Q_pragma ==
    <<"P", "R", "A", "G", "M", "A", " ", "t", "a", "b", "l", "e", "_", "i", "n", "f", "o", "(", "t", ")">>
Q_delete_all_t ==
    <<"d", "e", "l", "e", "t", "e", " ", "f", "r", "o", "m", " ", "t">>
Q_create_sqlitex ==
    <<"C", "R", "E", "A", "T", "E", " ", "T", "A", "B", "L", "E", " ", "s", "q", "l", "i", "t", "e", "x", " ", "(", "v", " ", "T", "E", "X", "T", ")">>
Q_selec ==
    <<"S", "E", "L", "E", "C", " ", "1">>

\* ------------------------------------------------------------------------
\* Python values as returned by the handlers and bound as parameters
\* ------------------------------------------------------------------------
PyNone == <<"None">>
PyInt(n) == <<"int", n>>
PyFloat(n) == <<"float", n>>
PyStr(s) == <<"str", s>>
PyBool(b) == <<"bool", b>>
PyList(l) == <<"list", l>>

\* {key: value}
Dict1(k, v) == [x \in {k} |-> v]

\* dict(zip(keys, vals)); a repeated key keeps its last value
DictZip(keys, vals) ==
    [k \in Range(keys) |->
        vals[CHOOSE i \in 1..Len(keys) :
                /\ keys[i] = k
                /\ \A j \in 1..Len(keys) : keys[j] = k => j <= i]]

\* ------------------------------------------------------------------------
\* The sqlite3 engine: values, affinity, identifiers
\* ------------------------------------------------------------------------
IsDigit(c) == \E i \in 1..10 : Digits[i] = c

IsLetter(c) == \E i \in 1..26 : LowerLetters[i] = c \/ UpperLetters[i] = c

DigitVal(c) == (CHOOSE i \in 1..10 : Digits[i] = c) - 1

\* text that sqlite converts to an integer under numeric affinity
IsNumericText(s) == s # <<>> /\ \A i \in 1..Len(s) : IsDigit(s[i])

RECURSIVE TextToInt(_)
TextToInt(s) ==
    IF s = <<>> THEN 0
    ELSE 10 * TextToInt(SubSeq(s, 1, Len(s) - 1)) + DigitVal(s[Len(s)])

\* An unquoted SQL identifier: letter or underscore, then letters, digits,
\* underscores.
IsIdentifier(s) ==
    /\ s # <<>>
    /\ IsLetter(s[1]) \/ s[1] = "_"
    /\ \A i \in 1..Len(s) : IsLetter(s[i]) \/ IsDigit(s[i]) \/ s[i] = "_"

\* Column affinity from the declared type (sqlite rules, in this order)
Affinity(declType) ==
    LET u == Upper(declType) IN
    IF Contains(u, <<"I", "N", "T">>) THEN "INTEGER"
    ELSE IF \/ Contains(u, <<"C", "H", "A", "R">>)
            \/ Contains(u, <<"C", "L", "O", "B">>)
            \/ Contains(u, S_TEXT) THEN "TEXT"
    ELSE IF Contains(u, S_BLOB) \/ u = <<>> THEN "BLOB"
    ELSE IF \/ Contains(u, S_REAL)
            \/ Contains(u, <<"F", "L", "O", "A">>)
            \/ Contains(u, <<"D", "O", "U", "B">>) THEN "REAL"
    ELSE "NUMERIC"

\* The value sqlite stores when v is written to a column of affinity aff
ApplyAffinity(aff, v) ==
    IF aff = "TEXT" THEN
        IF v[1] = "int" THEN PyStr(IntStr(v[2])) ELSE v
    ELSE IF aff \in {"INTEGER", "NUMERIC"} THEN
        IF v[1] = "str" /\ IsNumericText(v[2]) THEN PyInt(TextToInt(v[2])) ELSE v
    ELSE IF aff = "REAL" THEN
        IF v[1] = "int" THEN PyFloat(v[2])
        ELSE IF v[1] = "str" /\ IsNumericText(v[2]) THEN PyFloat(TextToInt(v[2]))
        ELSE v
    ELSE v

\* "column = ?" : the column's affinity is applied to the bound value and
\* NULL never compares equal
SqlEq(stored, aff, param) ==
    LET p == ApplyAffinity(IF aff = "TEXT" THEN "TEXT"
                           ELSE IF aff = "BLOB" THEN "BLOB" ELSE "NUMERIC", param) IN
    /\ stored # PyNone
    /\ p # PyNone
    /\ IF stored[1] \in {"int", "float"} /\ p[1] \in {"int", "float"}
       THEN stored[2] = p[2]
       ELSE stored = p

RECURSIVE Like(_, _)
\* s LIKE pattern: % matches any run, _ any one character, letters match
\* without regard to case
Like(pattern, s) ==
    IF pattern = <<>> THEN s = <<>>
    ELSE IF Head(pattern) = "%" THEN
        \/ Like(Tail(pattern), s)
        \/ s # <<>> /\ Like(pattern, Tail(s))
    ELSE IF s = <<>> THEN FALSE
    ELSE IF Head(pattern) = "_" THEN Like(Tail(pattern), Tail(s))
    ELSE /\ UpperChar(Head(pattern)) = UpperChar(Head(s))
         /\ Like(Tail(pattern), Tail(s))

\* ------------------------------------------------------------------------
\* The store: a sequence of tables in creation order.  A table is
\* [name, cols, rows]; cols is a sequence of [name, type, pk]; rows maps a
\* rowid to the sequence of stored values, one per column.
\* ------------------------------------------------------------------------
Col(n, ty, pk) == [name |-> n, type |-> ty, pk |-> pk]

HasTable(db, n) == \E i \in 1..Len(db) : Lower(db[i].name) = Lower(n)

TableIdx(db, n) == CHOOSE i \in 1..Len(db) : Lower(db[i].name) = Lower(n)

HasCol(tbl, n) == \E i \in 1..Len(tbl.cols) : Lower(tbl.cols[i].name) = Lower(n)

ColIdx(tbl, n) == CHOOSE i \in 1..Len(tbl.cols) : Lower(tbl.cols[i].name) = Lower(n)

ColNames(tbl) == [i \in 1..Len(tbl.cols) |-> tbl.cols[i].name]

ColAff(tbl, n) == Affinity(tbl.cols[ColIdx(tbl, n)].type)

MaxOf(S) == CHOOSE x \in S : \A y \in S : y <= x

RECURSIVE SortedSeq(_)
\* the elements of a set of integers in increasing order
SortedSeq(S) ==
    IF S = {} THEN <<>>
    ELSE LET m == CHOOSE x \in S : \A y \in S : x <= y
         IN <<m>> \o SortedSeq(S \ {m})

ReplaceTable(db, i, tbl) == [db EXCEPT ![i] = tbl]

\* ------------------------------------------------------------------------
\* Exceptions and the outcome of cursor.execute
\* ------------------------------------------------------------------------
NoExc == [cls |-> "none", msg |-> <<>>]

Exc(cls, msg) == [cls |-> cls, msg |-> msg]

\* outcome of one cursor.execute: the exception raised (or none), the
\* connection's view of the store afterwards, the result description and
\* rows, cursor.rowcount, cursor.lastrowid, and whether sqlite3 opened an
\* implicit transaction (INSERT/UPDATE/DELETE) that needs a commit
ExecFail(db, e) ==
    [exc |-> e, db |-> db, cols |-> <<>>, rows |-> <<>>,
     rowcount |-> -1, lastrowid |-> 0, dml |-> FALSE]

ExecRows(db, cols, rows) ==
    [exc |-> NoExc, db |-> db, cols |-> cols, rows |-> rows,
     rowcount |-> -1, lastrowid |-> 0, dml |-> FALSE]

ExecWrite(db, rowcount, lastrowid, dml) ==
    [exc |-> NoExc, db |-> db, cols |-> <<>>, rows |-> <<>>,
     rowcount |-> rowcount, lastrowid |-> lastrowid, dml |-> dml]

\* the tokenizer's error for a name that is not an identifier (as for 1x)
TokenError(text) ==
    Exc("OperationalError", M_unrecognized \o Strip(text) \o <<"\"">>)

BadNames(names) == {i \in 1..Len(names) : ~IsIdentifier(Strip(names[i]))}

FirstBad(names) == names[CHOOSE i \in BadNames(names) : \A j \in BadNames(names) : i <= j]

\* ------------------------------------------------------------------------
\* Statements.  A generated statement is kept as the record of the pieces
\* the handler substituted into the SQL text (names verbatim, values as
\* bound parameters); the engine tokenizes the names when it executes it.
\* ------------------------------------------------------------------------

\* INSERT INTO <table> (<columns>) VALUES (?, ...)
SqlInsert(db, table, columns, values) ==
    LET names == <<table>> \o columns IN
    IF columns = <<>> THEN ExecFail(db, Exc("OperationalError", <<"n", "e", "a", "r", " ", "\"", ")", "\"", ":", " ", "s", "y", "n", "t", "a", "x", " ", "e", "r", "r", "o", "r">>))
    ELSE IF BadNames(names) # {} THEN ExecFail(db, TokenError(FirstBad(names)))
    ELSE IF ~HasTable(db, table) THEN
        ExecFail(db, Exc("OperationalError", M_no_such_table_ \o Strip(table)))
    ELSE
    LET ti == TableIdx(db, table)
        tbl == db[ti]
        missing == {i \in 1..Len(columns) : ~HasCol(tbl, Strip(columns[i]))}
    IN
    IF missing # {} THEN
        ExecFail(db, Exc("OperationalError",
            M_table_ \o tbl.name \o M_has_no_column_
                \o Strip(columns[CHOOSE i \in missing : \A j \in missing : i <= j])))
    ELSE
    LET conv(i) == ApplyAffinity(ColAff(tbl, Strip(columns[i])), values[i])
        given(j) == {i \in 1..Len(columns) : ColIdx(tbl, Strip(columns[i])) = j}
        stored(j) == IF given(j) = {} THEN PyNone ELSE conv(MaxOf(given(j)))
        pks == {j \in 1..Len(tbl.cols) : tbl.cols[j].pk}
        pkvals == {stored(j) : j \in pks} \ {PyNone}
        ids == DOMAIN tbl.rows
        auto == IF ids = {} THEN 1 ELSE MaxOf(ids) + 1
    IN
    IF \E v \in pkvals : v[1] # "int" THEN
        ExecFail(db, Exc("IntegrityError", <<"d", "a", "t", "a", "t", "y", "p", "e", " ", "m", "i", "s", "m", "a", "t", "c", "h">>))
    ELSE
    LET rowid == IF pkvals = {} THEN auto ELSE (CHOOSE v \in pkvals : TRUE)[2]
        row == [j \in 1..Len(tbl.cols) |->
                    IF tbl.cols[j].pk THEN PyInt(rowid) ELSE stored(j)]
    IN
    IF rowid \in ids THEN
        ExecFail(db, Exc("IntegrityError",
            M_unique_ \o tbl.name \o <<".">> \o tbl.cols[CHOOSE j \in pks : TRUE].name))
    ELSE
        ExecWrite(ReplaceTable(db, ti,
                      [tbl EXCEPT !.rows = [r \in ids \cup {rowid} |->
                                              IF r = rowid THEN row ELSE tbl.rows[r]]]),
                  1, rowid, TRUE)

\* the rowids of tbl whose row satisfies every "col = ?" condition
Matching(tbl, whereCols, whereVals) ==
    {r \in DOMAIN tbl.rows :
        \A i \in 1..Len(whereCols) :
            SqlEq(tbl.rows[r][ColIdx(tbl, Strip(whereCols[i]))],
                  ColAff(tbl, Strip(whereCols[i])), whereVals[i])}

\* the first name of cols that is not a column of tbl, as an exception
NoSuchColumn(tbl, cols) ==
    LET missing == {i \in 1..Len(cols) : ~HasCol(tbl, Strip(cols[i]))} IN
    Exc("OperationalError",
        M_no_such_column_ \o Strip(cols[CHOOSE i \in missing : \A j \in missing : i <= j]))

\* UPDATE <table> SET c = ?, ... WHERE c = ? AND ...
\* (the records the model passes never assign the rowid column)
SqlUpdate(db, table, setCols, setVals, whereCols, whereVals) ==
    LET names == <<table>> \o setCols \o whereCols IN
    IF setCols = <<>> \/ whereCols = <<>>
    THEN ExecFail(db, Exc("OperationalError", <<"n", "e", "a", "r", " ", "\"", "W", "H", "E", "R", "E", "\"", ":", " ", "s", "y", "n", "t", "a", "x", " ", "e", "r", "r", "o", "r">>))
    ELSE IF BadNames(names) # {} THEN ExecFail(db, TokenError(FirstBad(names)))
    ELSE IF ~HasTable(db, table) THEN
        ExecFail(db, Exc("OperationalError", M_no_such_table_ \o Strip(table)))
    ELSE
    LET ti == TableIdx(db, table)
        tbl == db[ti]
    IN
    IF \E i \in 1..Len(setCols \o whereCols) : ~HasCol(tbl, Strip((setCols \o whereCols)[i])) THEN
        ExecFail(db, NoSuchColumn(tbl, setCols \o whereCols))
    ELSE
    LET hit == Matching(tbl, whereCols, whereVals)
        given(j) == {i \in 1..Len(setCols) : ColIdx(tbl, Strip(setCols[i])) = j}
        newval(j, old) ==
            IF given(j) = {} THEN old
            ELSE ApplyAffinity(Affinity(tbl.cols[j].type), setVals[MaxOf(given(j))])
    IN
        ExecWrite(ReplaceTable(db, ti,
                      [tbl EXCEPT !.rows = [r \in DOMAIN tbl.rows |->
                          IF r \in hit
                          THEN [j \in 1..Len(tbl.cols) |-> newval(j, tbl.rows[r][j])]
                          ELSE tbl.rows[r]]]),
                  Cardinality(hit), 0, TRUE)

\* DELETE FROM <table> WHERE c = ? AND ...
SqlDelete(db, table, whereCols, whereVals) ==
    LET names == <<table>> \o whereCols IN
    IF whereCols = <<>> THEN ExecFail(db, Exc("OperationalError", <<"i", "n", "c", "o", "m", "p", "l", "e", "t", "e", " ", "i", "n", "p", "u", "t">>))
    ELSE IF BadNames(names) # {} THEN ExecFail(db, TokenError(FirstBad(names)))
    ELSE IF ~HasTable(db, table) THEN
        ExecFail(db, Exc("OperationalError", M_no_such_table_ \o Strip(table)))
    ELSE
    LET ti == TableIdx(db, table)
        tbl == db[ti]
    IN
    IF \E i \in 1..Len(whereCols) : ~HasCol(tbl, Strip(whereCols[i])) THEN
        ExecFail(db, NoSuchColumn(tbl, whereCols))
    ELSE
    LET hit == Matching(tbl, whereCols, whereVals) IN
        ExecWrite(ReplaceTable(db, ti,
                      [tbl EXCEPT !.rows = [r \in (DOMAIN tbl.rows) \ hit |-> tbl.rows[r]]]),
                  Cardinality(hit), 0, TRUE)

\* ALTER TABLE <table> ADD COLUMN <column> <type>; takes effect at once,
\* sqlite3 opens no implicit transaction for it
SqlAddColumn(db, table, column, declType) ==
    LET names == <<table, column>> IN
    IF BadNames(names) # {} THEN ExecFail(db, TokenError(FirstBad(names)))
    ELSE IF ~HasTable(db, table) THEN
        ExecFail(db, Exc("OperationalError", M_no_such_table_ \o Strip(table)))
    ELSE
    LET ti == TableIdx(db, table)
        tbl == db[ti]
    IN
    IF HasCol(tbl, Strip(column)) THEN
        ExecFail(db, Exc("OperationalError", M_dup_col_ \o Strip(column)))
    ELSE
        ExecWrite(ReplaceTable(db, ti,
                      [cols |-> Append(tbl.cols, Col(Strip(column), declType, FALSE)),
                       name |-> tbl.name,
                       rows |-> [r \in DOMAIN tbl.rows |-> Append(tbl.rows[r], PyNone)]]),
                  -1, 0, FALSE)

\* SELECT name FROM sqlite_master WHERE type='table' AND name NOT LIKE 'sqlite_%';
SqlMasterTables(db) ==
    LET keep == {i \in 1..Len(db) : ~Like(S_like_pattern, db[i].name)}
        order == SortedSeq(keep)
    IN ExecRows(db, <<S_name>>, [k \in 1..Len(order) |-> <<PyStr(db[order[k]].name)>>])

\* the result columns of PRAGMA table_info
TableInfoHeader ==
    << <<"c", "i", "d">>, S_name, S_type, S_notnull,
       <<"d", "f", "l", "t", "_", "v", "a", "l", "u", "e">>, <<"p", "k">> >>

\* PRAGMA table_info(<table>); one row (cid, name, type, notnull,
\* dflt_value, pk) per column in declaration order, no row for a missing
\* table
SqlTableInfo(db, table) ==
    IF ~IsIdentifier(Strip(table)) THEN ExecFail(db, TokenError(table))
    ELSE IF ~HasTable(db, table) THEN
        ExecRows(db, TableInfoHeader, <<>>)
    ELSE
    LET tbl == db[TableIdx(db, table)] IN
        ExecRows(db, TableInfoHeader,
            [j \in 1..Len(tbl.cols) |->
                <<PyInt(j - 1), PyStr(tbl.cols[j].name), PyStr(tbl.cols[j].type),
                  PyInt(0), PyNone, PyInt(IF tbl.cols[j].pk THEN 1 ELSE 0)>>])

\* SELECT * FROM <table> [WHERE rowid = <id>], rows in rowid order
SqlSelect(db, table, ids) ==
    IF ~HasTable(db, table) THEN
        ExecFail(db, Exc("OperationalError", M_no_such_table_ \o table))
    ELSE
    LET tbl == db[TableIdx(db, table)]
        order == SortedSeq((DOMAIN tbl.rows) \cap ids)
    IN ExecRows(db, ColNames(tbl), [k \in 1..Len(order) |-> tbl.rows[order[k]]])

\* CREATE TABLE <name> (<cols>)
SqlCreateTable(db, name, cols) ==
    IF StartsWith(Lower(name), S_reserved_prefix) THEN
        ExecFail(db, Exc("OperationalError", <<"o", "b", "j", "e", "c", "t", " ", "n", "a", "m", "e", " ", "r", "e", "s", "e", "r", "v", "e", "d", " ", "f", "o", "r", " ", "i", "n", "t", "e", "r", "n", "a", "l", " ", "u", "s", "e", ":", " ">> \o name))
    ELSE IF HasTable(db, name) THEN
        ExecFail(db, Exc("OperationalError", M_table_ \o name \o <<" ", "a", "l", "r", "e", "a", "d", "y", " ", "e", "x", "i", "s", "t", "s">>))
    ELSE ExecWrite(Append(db, [name |-> name, cols |-> cols, rows |-> <<>>]), -1, 0, FALSE)

\* ------------------------------------------------------------------------
\* Raw statements handed to execute_sql_query: the text the handler
\* classifies and the statement the engine parses from it
\* ------------------------------------------------------------------------
Stmt(kind, table, id, alias, value) ==
    [kind |-> kind, table |-> table, id |-> id, alias |-> alias, value |-> value]

Query(text, stmt) == [text |-> text, stmt |-> stmt]

\* "  SELECT * FROM <table> WHERE rowid = <id>"
SelectByRowid(table, id) ==
    Query(Q_select_from \o table \o Q_where_rowid \o IntStr(id),
          Stmt("select_rowid", table, id, <<>>, PyNone))

RawQueries ==
    { Query(Q_select_all_t, Stmt("select_all", S_t, 0, <<>>, PyNone)),
      Query(Q_select_all_nosuch, Stmt("select_all", S_nosuch, 0, <<>>, PyNone)),
      Query(Q_select_error, Stmt("select_literal", <<>>, 0, S_error, PyStr(M_locked))),
      Query(Q_select_rows_affected, Stmt("select_literal", <<>>, 0, S_rows_affected, PyInt(1))),
      Query(Q_with_select, Stmt("with_select", <<>>, 0, <<"x">>, PyInt(1))),
      Query(Q_pragma, Stmt("table_info", S_t, 0, <<>>, PyNone)),
      Query(Q_delete_all_t, Stmt("delete_all", S_t, 0, <<>>, PyNone)),
      Query(Q_create_sqlitex, Stmt("create_table", S_sqlitex, 0, <<>>, PyNone)),
      Query(Q_selec, Stmt("syntax_error", <<>>, 0, <<>>, PyNone)) }
      \cup {SelectByRowid(S_t, id) : id \in 1..MaxRowid}

\* cursor.execute(query) for a raw statement
SqlExecuteRaw(db, stmt) ==
    CASE stmt.kind = "select_all" ->
            IF HasTable(db, stmt.table)
            THEN SqlSelect(db, stmt.table, DOMAIN db[TableIdx(db, stmt.table)].rows)
            ELSE SqlSelect(db, stmt.table, {})
      [] stmt.kind = "select_rowid" -> SqlSelect(db, stmt.table, {stmt.id})
      [] stmt.kind = "select_literal" -> ExecRows(db, <<stmt.alias>>, <<(<<stmt.value>>)>>)
      [] stmt.kind = "with_select" -> ExecRows(db, <<stmt.alias>>, <<(<<stmt.value>>)>>)
      [] stmt.kind = "table_info" -> SqlTableInfo(db, stmt.table)
      [] stmt.kind = "delete_all" ->
            IF ~HasTable(db, stmt.table)
            THEN ExecFail(db, Exc("OperationalError", M_no_such_table_ \o stmt.table))
            ELSE LET ti == TableIdx(db, stmt.table) IN
                 ExecWrite(ReplaceTable(db, ti, [db[ti] EXCEPT !.rows = <<>>]),
                           Cardinality(DOMAIN db[ti].rows), 0, TRUE)
      [] stmt.kind = "create_table" ->
            SqlCreateTable(db, stmt.table, <<Col(S_v, S_TEXT, FALSE)>>)
      [] OTHER -> ExecFail(db, Exc("OperationalError", M_syntax_near))

\* ------------------------------------------------------------------------
\* The environment of a call: whether the file can be opened, and a store
\* condition that makes execute or commit raise
\* ------------------------------------------------------------------------
DbPaths == {"app.db", "/nodir/app.db"}

Faults == {"none", "locked", "notadb", "disk_io"}

\* a store condition only shows on a file that can be opened
Envs == {e \in DbPaths \X Faults : e[1] = "app.db" \/ e[2] = "none"}

\* sqlite3.connect(db_path): the exception it raises, or none
Connect(db_path) ==
    IF db_path = "app.db" THEN NoExc ELSE Exc("OperationalError", M_cannot_open)

\* cursor.execute under the store condition: r is what the engine would do
Execute(db, r, fault) ==
    IF fault = "locked" THEN ExecFail(db, Exc("OperationalError", M_locked))
    ELSE IF fault = "notadb" THEN ExecFail(db, Exc("DatabaseError", M_not_a_db))
    ELSE r

\* conn.commit(): the exception it raises, or none; only an open
\* transaction has anything to write
Commit(r, fault) ==
    IF r.dml /\ fault = "disk_io" THEN Exc("OperationalError", M_disk_io) ELSE NoExc

\* conn.close() without a commit rolls an open transaction back
Uncommitted(db, r) == IF r.dml THEN db ELSE r.db

\* isinstance(e, cls) over the sqlite3 exception hierarchy
IsInstance(e, cls) ==
    \/ cls = "Exception"
    \/ cls = e.cls
    \/ cls = "DatabaseError" /\ e.cls \in {"OperationalError", "IntegrityError", "ProgrammingError"}

\* ------------------------------------------------------------------------
\* Outcome of one handler call: the returned Python value, the envelope
\* variant of the return statement taken, the store interactions in order,
\* the store afterwards, and whether an exception left the handler
\* ------------------------------------------------------------------------
Outcome(ret, tag, trace, db) ==
    [ret |-> ret, tag |-> tag, trace |-> trace, db |-> db, raised |-> FALSE]

Escaped(trace, db) ==
    [ret |-> <<>>, tag |-> "Raised", trace |-> trace, db |-> db, raised |-> TRUE]

\* Variant of Finally: conn.close() as the last statement of the try block,
\* skipped when an exception was raised
Finally_SkippedOnError(o) ==
    IF /\ Len(o.trace) > 0
       /\ o.trace[1] = "connect_ok"
       /\ o.trace[Len(o.trace)] \notin {"execute_err", "commit_err"}
    THEN [o EXCEPT !.trace = Append(o.trace, "close")]
    ELSE o

\* finally: if 'conn' in locals(): conn.close()
Finally(o) ==
    IF Len(o.trace) > 0 /\ o.trace[1] = "connect_ok"
    THEN [o EXCEPT !.trace = Append(o.trace, "close")]
    ELSE o

\* Variant of ExceptException: "except sqlite3.OperationalError as e"
ExceptException_OperationalOnly(e, trace, db) ==
    IF IsInstance(e, "OperationalError")
    THEN Outcome(<<Dict1(S_error, PyStr(e.msg))>>, "Failure", trace, db)
    ELSE Escaped(trace, db)

\* except Exception as e: return [{"error": str(e)}]
ExceptException(e, trace, db) ==
    IF IsInstance(e, "Exception")
    THEN Outcome(<<Dict1(S_error, PyStr(e.msg))>>, "Failure", trace, db)
    ELSE Escaped(trace, db)

\* Variant of IsSelect: query.strip().startswith('SELECT'), no upper()
IsSelect_CaseSensitive(text) == StartsWith(Strip(text), S_SELECT)

\* query.strip().upper().startswith('SELECT')
IsSelect(text) == StartsWith(Upper(Strip(text)), S_SELECT)

execute_sql_query(query, db_path, fault, db) ==
    Finally(
    IF Connect(db_path) # NoExc
    THEN ExceptException(Connect(db_path), <<"connect_err">>, db)
    ELSE
    LET r == Execute(db, SqlExecuteRaw(db, query.stmt), fault) IN
    IF r.exc # NoExc
    THEN ExceptException(r.exc, <<"connect_ok", "execute_err">>, db)
    ELSE IF IsSelect(query.text)
    THEN Outcome([k \in 1..Len(r.rows) |-> DictZip(r.cols, r.rows[k])], "Rows",
                 <<"connect_ok", "execute_ok", "fetchall">>, Uncommitted(db, r))
    ELSE IF Commit(r, fault) # NoExc
    THEN ExceptException(Commit(r, fault), <<"connect_ok", "execute_ok", "commit_err">>, db)
    ELSE Outcome(<<Dict1(S_rows_affected, PyInt(r.rowcount))>>, "Affected",
                 <<"connect_ok", "execute_ok", "commit_ok">>, r.db))

\* bool(n) of a Python int
PyTruth(v) == PyBool(v[2] # 0)

\* the dict built for one row of PRAGMA table_info
ColumnInfo(col) ==
    DictZip(<<S_name, S_type, S_notnull, S_default, S_primary_key>>,
            <<col[2], col[3], PyTruth(col[4]), col[5], PyTruth(col[6])>>)

\* the store interactions of the schema loop over the first n tables
RECURSIVE LoopTrace(_)
LoopTrace(n) ==
    IF n = 0 THEN <<>> ELSE LoopTrace(n - 1) \o <<"execute_ok", "fetchall">>

get_database_schema(db_path, fault, db) ==
    Finally(
    IF Connect(db_path) # NoExc
    THEN ExceptException(Connect(db_path), <<"connect_err">>, db)
    ELSE
    LET m == Execute(db, SqlMasterTables(db), fault) IN
    IF m.exc # NoExc
    THEN ExceptException(m.exc, <<"connect_ok", "execute_err">>, db)
    ELSE
    LET tables == m.rows
        info(k) == SqlTableInfo(db, tables[k][1][2])
        failed == {k \in 1..Len(tables) : info(k).exc # NoExc}
        head == <<"connect_ok", "execute_ok", "fetchall">>
    IN
    IF failed # {}
    THEN LET k == CHOOSE i \in failed : \A j \in failed : i <= j IN
         ExceptException(info(k).exc, head \o LoopTrace(k - 1) \o <<"execute_err">>, db)
    ELSE Outcome([k \in 1..Len(tables) |->
                    DictZip(<<S_table, S_columns>>,
                            <<tables[k][1],
                              PyList([j \in 1..Len(info(k).rows) |-> ColumnInfo(info(k).rows[j])])>>)],
                 "Rows", head \o LoopTrace(Len(tables)), db))

list_tables(db_path, fault, db) ==
    Finally(
    IF Connect(db_path) # NoExc
    THEN Outcome(<<PyStr(M_error_ \o Connect(db_path).msg)>>, "Failure", <<"connect_err">>, db)
    ELSE
    LET m == Execute(db, SqlMasterTables(db), fault) IN
    IF m.exc # NoExc
    THEN Outcome(<<PyStr(M_error_ \o m.exc.msg)>>, "Failure", <<"connect_ok", "execute_err">>, db)
    ELSE Outcome([k \in 1..Len(m.rows) |-> m.rows[k][1]], "Rows",
                 <<"connect_ok", "execute_ok", "fetchall">>, db))

\* a Python dict argument: its keys and values in insertion order
Dict(keys, vals) == [keys |-> keys, vals |-> vals]

EmptyDict == Dict(<<>>, <<>>)

\* return [{"inserted_id": cursor.lastrowid}] of insert_row,
\* return [{"rows_affected": cursor.rowcount}] of update_rows and delete_rows
SuccessValue(tag, r) ==
    IF tag = "InsertedId"
    THEN <<Dict1(S_inserted_id, PyInt(r.lastrowid))>>
    ELSE <<Dict1(S_rows_affected, PyInt(r.rowcount))>>

\* Variant of RunWrite: conn.commit() left out, so closing the connection
\* rolls the statement back
RunWrite_NoCommit(r0, db_path, fault, db, tag) ==
    Finally(
    IF Connect(db_path) # NoExc
    THEN ExceptException(Connect(db_path), <<"connect_err">>, db)
    ELSE
    LET r == Execute(db, r0, fault) IN
    IF r.exc # NoExc
    THEN ExceptException(r.exc, <<"connect_ok", "execute_err">>, db)
    ELSE Outcome(SuccessValue(tag, r), tag,
                 <<"connect_ok", "execute_ok">>, Uncommitted(db, r)))

\* the try/except/finally that insert_row, update_rows and delete_rows share
\* line for line: connect, execute the generated statement r0, commit,
\* return the success value
RunWrite(r0, db_path, fault, db, tag) ==
    Finally(
    IF Connect(db_path) # NoExc
    THEN ExceptException(Connect(db_path), <<"connect_err">>, db)
    ELSE
    LET r == Execute(db, r0, fault) IN
    IF r.exc # NoExc
    THEN ExceptException(r.exc, <<"connect_ok", "execute_err">>, db)
    ELSE IF Commit(r, fault) # NoExc
    THEN ExceptException(Commit(r, fault), <<"connect_ok", "execute_ok", "commit_err">>, db)
    ELSE Outcome(SuccessValue(tag, r), tag,
                 <<"connect_ok", "execute_ok", "commit_ok">>, r.db))

insert_row(table, data, db_path, fault, db) ==
    IF Len(data.keys) = 0
    THEN Outcome(<<Dict1(S_error, PyStr(M_no_data))>>, "Failure", <<>>, db)
    ELSE
    RunWrite(SqlInsert(db, table, data.keys, data.vals), db_path, fault, db,
             "InsertedId")

update_rows(table, data, where, db_path, fault, db) ==
    IF Len(data.keys) = 0 \/ Len(where.keys) = 0
    THEN Outcome(<<Dict1(S_error, PyStr(M_both_required))>>, "Failure", <<>>, db)
    ELSE
    RunWrite(SqlUpdate(db, table, data.keys, data.vals, where.keys, where.vals),
             db_path, fault, db, "Affected")

\* Variant of delete_rows: the "if not where" check left out
delete_rows_Unchecked(table, where, db_path, fault, db) ==
    RunWrite(SqlDelete(db, table, where.keys, where.vals),
             db_path, fault, db, "Affected")

delete_rows(table, where, db_path, fault, db) ==
    IF Len(where.keys) = 0
    THEN Outcome(<<Dict1(S_error, PyStr(M_where_required))>>, "Failure", <<>>, db)
    ELSE
    RunWrite(SqlDelete(db, table, where.keys, where.vals),
             db_path, fault, db, "Affected")

allowed_types ==
    {S_TEXT, S_INTEGER, S_REAL, S_NUMERIC, S_BLOB, S_DATE, S_DATETIME}

\* Variant of TypeAllowed: "data_type not in allowed_types", no upper()
TypeAllowed_CaseSensitive(data_type) == data_type \in allowed_types

\* data_type.upper() in allowed_types
TypeAllowed(data_type) == Upper(data_type) \in allowed_types

\* Variant of add_column_except: no branch for "duplicate column name"
add_column_except_NoDuplicateBranch(e, table, column_name, trace, db) ==
    IF IsInstance(e, "OperationalError") THEN
        IF Contains(Lower(e.msg), S_no_such_table)
        THEN Outcome(<<Dict1(S_error, PyStr(M_table_q \o table \o M_q_not_exist))>>,
                     "Failure", trace, db)
        ELSE Outcome(<<Dict1(S_error, PyStr(M_sqlite_error_ \o e.msg))>>,
                     "Failure", trace, db)
    ELSE IF IsInstance(e, "Exception") THEN
        Outcome(<<Dict1(S_error, PyStr(M_unexpected_ \o e.msg))>>, "Failure", trace, db)
    ELSE Escaped(trace, db)

\* the except clauses of add_column
add_column_except(e, table, column_name, trace, db) ==
    IF IsInstance(e, "OperationalError") THEN
        IF Contains(Lower(e.msg), S_dup_col)
        THEN Outcome(<<Dict1(S_error,
                        PyStr(M_column_q \o column_name \o M_q_already \o table \o M_q))>>,
                     "Failure", trace, db)
        ELSE IF Contains(Lower(e.msg), S_no_such_table)
        THEN Outcome(<<Dict1(S_error, PyStr(M_table_q \o table \o M_q_not_exist))>>,
                     "Failure", trace, db)
        ELSE Outcome(<<Dict1(S_error, PyStr(M_sqlite_error_ \o e.msg))>>,
                     "Failure", trace, db)
    ELSE IF IsInstance(e, "Exception") THEN
        Outcome(<<Dict1(S_error, PyStr(M_unexpected_ \o e.msg))>>, "Failure", trace, db)
    ELSE Escaped(trace, db)

add_column(table, column_name, data_type, db_path, fault, db) ==
    IF Strip(table) = <<>>
    THEN Outcome(<<Dict1(S_error, PyStr(M_table_empty))>>, "Failure", <<>>, db)
    ELSE IF Strip(column_name) = <<>>
    THEN Outcome(<<Dict1(S_error, PyStr(M_column_empty))>>, "Failure", <<>>, db)
    ELSE IF ~TypeAllowed(data_type)
    THEN Outcome(<<Dict1(S_error, PyStr(M_bad_type))>>, "Failure", <<>>, db)
    ELSE
    Finally(
    IF Connect(db_path) # NoExc
    THEN add_column_except(Connect(db_path), table, column_name, <<"connect_err">>, db)
    ELSE
    LET r == Execute(db, SqlAddColumn(db, table, column_name, data_type), fault) IN
    IF r.exc # NoExc
    THEN add_column_except(r.exc, table, column_name, <<"connect_ok", "execute_err">>, db)
    ELSE IF Commit(r, fault) # NoExc
    THEN add_column_except(Commit(r, fault), table, column_name,
                           <<"connect_ok", "execute_ok", "commit_err">>, db)
    ELSE Outcome(<<DictZip(<<S_success, S_message>>,
                     <<PyBool(TRUE),
                       PyStr(M_column_q \o column_name \o M_q_paren \o data_type
                             \o M_added \o table \o M_q)>>)>>,
                 "Ack", <<"connect_ok", "execute_ok", "commit_ok">>, r.db))

\* ------------------------------------------------------------------------
\* State
\* ------------------------------------------------------------------------
VARIABLES
    db,         \* the committed content of the database file
    openConns,  \* connections opened and not yet closed
    call,       \* the call being answered: handler and arguments
    out,        \* what that call returned and did
    pre         \* the content of the database file when that call began

vars == <<db, openConns, call, out, pre>>

Call(op, table, data, where, column, dtype, query, path, fault) ==
    [op |-> op, table |-> table, data |-> data, where |-> where,
     column |-> column, dtype |-> dtype, query |-> query,
     db_path |-> path, fault |-> fault]

NoQuery == Query(<<>>, Stmt("none", <<>>, 0, <<>>, PyNone))

\* t(id INTEGER PRIMARY KEY, name TEXT) and the catalog table that ANALYZE
\* leaves behind
InitDb ==
    << [name |-> S_t,
        cols |-> <<Col(S_id, S_INTEGER, TRUE), Col(S_name, S_TEXT, FALSE)>>,
        rows |-> <<>>],
       [name |-> S_sqlite_stat1,
        cols |-> <<Col(<<"t", "b", "l">>, <<>>, FALSE),
                  Col(<<"i", "d", "x">>, <<>>, FALSE),
                  Col(<<"s", "t", "a", "t">>, <<>>, FALSE)>>,
        rows |-> <<>>] >>

NoCall == Call("none", <<>>, EmptyDict, EmptyDict, <<>>, <<>>, NoQuery, "app.db", "none")

NoOut == [ret |-> <<>>, tag |-> "none", trace |-> <<>>, raised |-> FALSE]

Init ==
    /\ db = InitDb
    /\ openConns = 0
    /\ call = NoCall
    /\ out = NoOut
    /\ pre = InitDb

\* ------------------------------------------------------------------------
\* Arguments the calls are drawn from
\* ------------------------------------------------------------------------
TableArgs == {S_t, S_nosuch, S_1x}

DataArgs ==
    { EmptyDict,
      Dict(<<S_name>>, <<PyStr(<<"a">>)>>),
      Dict(<<S_id, S_name>>, <<PyInt(1), PyStr(<<"a">>)>>),
      Dict(<<S_id>>, <<PyNone>>),
      Dict(<<S_age>>, <<PyStr(<<"1">>)>>),
      Dict(<<S_1x>>, <<PyStr(<<"a">>)>>) }

UpdateArgs ==
    { EmptyDict,
      Dict(<<S_name>>, <<PyStr(<<"a">>)>>),
      Dict(<<S_1x>>, <<PyStr(<<"a">>)>>) }

WhereArgs ==
    { EmptyDict,
      Dict(<<S_id>>, <<PyInt(1)>>),
      Dict(<<S_name>>, <<PyStr(<<"a">>)>>),
      Dict(<<S_1x>>, <<PyInt(1)>>) }

AddTableArgs == {S_t, S_nosuch, S_1x, <<>>, <<" ">>}

ColumnArgs == {S_age, S_name, S_1x, <<>>, <<" ", "i", "d", " ">>}

TypeArgs == {S_integer, S_FOO}

\* the explored stores stay within the bounds
WithinBounds(d) ==
    \A i \in 1..Len(d) :
        /\ Cardinality(DOMAIN d[i].rows) <= MaxRows
        /\ \A r \in DOMAIN d[i].rows : r <= MaxRowid

Count(trace, ev) == Cardinality({i \in 1..Len(trace) : trace[i] = ev})

\* one request: the server is idle, the handler runs to completion and the
\* state records the call and its outcome
Apply(c, o) ==
    /\ call = NoCall
    /\ WithinBounds(o.db)
    /\ db' = o.db
    /\ openConns' = openConns + Count(o.trace, "connect_ok") - Count(o.trace, "close")
    /\ call' = c
    /\ out' = [ret |-> o.ret, tag |-> o.tag, trace |-> o.trace, raised |-> o.raised]
    /\ pre' = db

ExecuteSqlQuery ==
    \E q \in RawQueries, e \in Envs :
        Apply(Call("execute_sql_query", <<>>, EmptyDict, EmptyDict, <<>>, <<>>, q, e[1], e[2]),
              execute_sql_query(q, e[1], e[2], db))

GetDatabaseSchema ==
    \E e \in Envs :
        Apply(Call("get_database_schema", <<>>, EmptyDict, EmptyDict, <<>>, <<>>, NoQuery, e[1], e[2]),
              get_database_schema(e[1], e[2], db))

ListTables ==
    \E e \in Envs :
        Apply(Call("list_tables", <<>>, EmptyDict, EmptyDict, <<>>, <<>>, NoQuery, e[1], e[2]),
              list_tables(e[1], e[2], db))

InsertRow ==
    \E t \in TableArgs, d \in DataArgs, e \in Envs :
        Apply(Call("insert_row", t, d, EmptyDict, <<>>, <<>>, NoQuery, e[1], e[2]),
              insert_row(t, d, e[1], e[2], db))

UpdateRows ==
    \E t \in TableArgs, d \in UpdateArgs, w \in WhereArgs, e \in Envs :
        Apply(Call("update_rows", t, d, w, <<>>, <<>>, NoQuery, e[1], e[2]),
              update_rows(t, d, w, e[1], e[2], db))

DeleteRows ==
    \E t \in TableArgs, w \in WhereArgs, e \in Envs :
        Apply(Call("delete_rows", t, EmptyDict, w, <<>>, <<>>, NoQuery, e[1], e[2]),
              delete_rows(t, w, e[1], e[2], db))

AddColumn ==
    \E t \in AddTableArgs, c \in ColumnArgs, ty \in TypeArgs, e \in Envs :
        Apply(Call("add_column", t, EmptyDict, EmptyDict, c, ty, NoQuery, e[1], e[2]),
              add_column(t, c, ty, e[1], e[2], db))

\* the response has been sent; the server waits for the next request
Respond ==
    /\ call # NoCall
    /\ call' = NoCall
    /\ out' = NoOut
    /\ pre' = db
    /\ UNCHANGED <<db, openConns>>

Next ==
    \/ Respond
    \/ ExecuteSqlQuery
    \/ GetDatabaseSchema
    \/ ListTables
    \/ InsertRow
    \/ UpdateRows
    \/ DeleteRows
    \/ AddColumn

Spec == Init /\ [][Next]_vars

\* ------------------------------------------------------------------------
\* Properties of the handlers
\* ------------------------------------------------------------------------
Events(trace) == {trace[i] : i \in 1..Len(trace)}

\* the returned value is [{"error": <message>}]
IsErrorValue(ret) ==
    /\ Len(ret) = 1
    /\ DOMAIN ret[1] = {S_error}
    /\ ret[1][S_error][1] = "str"

\* the call was refused before any store interaction
RefusedUntouched ==
    /\ out.tag = "Failure"
    /\ IsErrorValue(out.ret)
    /\ out.trace = <<>>
    /\ ~out.raised
    /\ db = pre

\* C1: update_rows with an empty where or an empty data, and delete_rows
\* with an empty where, return a Failure, open no connection, execute no
\* statement and leave the store as it was.
C1_EmptyConditionsRefused ==
    /\ (call.op = "update_rows" /\ (Len(call.where.keys) = 0 \/ Len(call.data.keys) = 0))
          => RefusedUntouched
    /\ (call.op = "delete_rows" /\ Len(call.where.keys) = 0)
          => RefusedUntouched

\* delete_rows with no condition on a table that holds rows was refused
C1_Witness ==
    /\ call.op = "delete_rows"
    /\ call.table = S_t
    /\ Len(call.where.keys) = 0
    /\ call.db_path = "app.db" /\ call.fault = "none"
    /\ DOMAIN pre[1].rows # {}
    /\ RefusedUntouched

C2_Whitelist ==
    {S_TEXT, S_INTEGER, S_REAL, S_NUMERIC, S_BLOB, S_DATE, S_DATETIME}

\* C2: add_column with a declared type whose upper-cased form is outside
\* the whitelist returns a Failure before any store interaction; a type
\* inside the whitelist under any letter case passes the type check (the
\* call goes on to open the store).
C2_TypeWhitelist ==
    call.op = "add_column" =>
        /\ Upper(call.dtype) \notin C2_Whitelist => RefusedUntouched
        /\ (/\ Upper(call.dtype) \in C2_Whitelist
            /\ Strip(call.table) # <<>>
            /\ Strip(call.column) # <<>>)
              => /\ out.ret # <<Dict1(S_error, PyStr(M_bad_type))>>
                 /\ out.trace # <<>>

\* add_column with type FOO and otherwise good arguments was refused
C2_Witness ==
    /\ call.op = "add_column"
    /\ call.table = S_t /\ call.column = S_age /\ call.dtype = S_FOO
    /\ call.db_path = "app.db" /\ call.fault = "none"
    /\ RefusedUntouched

\* the column named in the call exists in the table named in the call
C3_ColumnExists ==
    /\ call.op = "add_column"
    /\ IsIdentifier(Strip(call.table))
    /\ HasTable(pre, Strip(call.table))
    /\ HasCol(pre[TableIdx(pre, Strip(call.table))], Strip(call.column))

C3_AlreadyExists ==
    <<Dict1(S_error,
        PyStr(M_column_q \o call.column \o M_q_already \o call.table \o M_q))>>

\* C3 as stated: add_column with a column name that exists in the target
\* table always returns the Failure "already exists", never an Ack, and
\* leaves the table's columns as they were.
C3_Original ==
    C3_ColumnExists =>
        /\ out.ret = C3_AlreadyExists
        /\ out.tag = "Failure"
        /\ db = pre

\* C3 amended: add_column with a column name that exists in the target
\* table always returns a Failure, never an Ack, and leaves the table's
\* columns as they were; the Failure is "already exists" when the declared
\* type is whitelisted and the store opens and runs the statement.
C3_Amended ==
    C3_ColumnExists =>
        /\ out.tag = "Failure"
        /\ IsErrorValue(out.ret)
        /\ db = pre
        /\ (/\ Upper(call.dtype) \in C2_Whitelist
            /\ call.db_path = "app.db"
            /\ call.fault \notin {"locked", "notadb"})
              => out.ret = C3_AlreadyExists

\* add_column(t, name, integer) on a store that runs it was answered
\* "already exists"
C3_Witness ==
    /\ C3_ColumnExists
    /\ call.table = S_t /\ call.column = S_name /\ call.dtype = S_integer
    /\ "execute_err" \in Events(out.trace)
    /\ out.ret = C3_AlreadyExists

\* the first six characters after leading whitespace spell SELECT in any
\* mix of cases
C4_LeadingSelect(text) ==
    LET s == Strip(text) IN
    /\ Len(s) >= 6
    /\ \A i \in 1..6 : s[i] \in {S_SELECT[i], LowerChar(S_SELECT[i])}

\* C4: a raw statement that the store runs without error is classified by
\* its leading keyword alone: one that begins with SELECT (any case, after
\* leading whitespace) returns Rows and is not committed; any other one is
\* committed and returns Affected(rowcount), row-producing or not.
C4_Classification ==
    (call.op = "execute_sql_query" /\ "execute_ok" \in Events(out.trace)) =>
        IF C4_LeadingSelect(call.query.text)
        THEN /\ out.tag = "Rows"
             /\ Events(out.trace) \cap {"commit_ok", "commit_err"} = {}
             /\ db = pre
        ELSE "commit_err" \notin Events(out.trace) =>
                /\ out.tag = "Affected"
                /\ "commit_ok" \in Events(out.trace)
                /\ \E n \in -1..MaxRows : out.ret = <<Dict1(S_rows_affected, PyInt(n))>>

\* WITH ... SELECT produced a row and was answered Affected(-1)
C4_Witness ==
    /\ call.op = "execute_sql_query"
    /\ call.query.text = Q_with_select
    /\ out.tag = "Affected"
    /\ out.ret = <<Dict1(S_rows_affected, PyInt(-1))>>
    /\ "commit_ok" \in Events(out.trace)

\* the record is one the store accepts: the table exists, every key is one
\* of its columns, an id that is given is an integer not yet in use, and the
\* store opens and raises nothing
C5_Valid ==
    /\ call.op = "insert_row"
    /\ Len(call.data.keys) > 0
    /\ call.db_path = "app.db" /\ call.fault = "none"
    /\ \A i \in 1..Len(call.data.keys) : IsIdentifier(call.data.keys[i])
    /\ IsIdentifier(call.table)
    /\ HasTable(pre, call.table)
    /\ LET tbl == pre[TableIdx(pre, call.table)] IN
       \A i \in 1..Len(call.data.keys) :
          /\ HasCol(tbl, call.data.keys[i])
          /\ tbl.cols[ColIdx(tbl, call.data.keys[i])].pk =>
                \/ call.data.vals[i] = PyNone
                \/ /\ call.data.vals[i][1] = "int"
                   /\ call.data.vals[i][2] \notin DOMAIN tbl.rows

\* what a later execute_sql_query returns for the SELECT of the new id
C5_SelectBack ==
    execute_sql_query(SelectByRowid(call.table, out.ret[1][S_inserted_id][2]),
                      "app.db", "none", db)

\* the store keeps the i-th value of the record as given: the column's
\* affinity does not convert it and it is not a NULL for the rowid column
C5_KeptAsGiven(i) ==
    LET tbl == pre[TableIdx(pre, call.table)]
        col == tbl.cols[ColIdx(tbl, call.data.keys[i])]
    IN /\ ApplyAffinity(Affinity(col.type), call.data.vals[i]) = call.data.vals[i]
       /\ ~(col.pk /\ call.data.vals[i] = PyNone)

\* C5 as stated: a valid non-empty record inserted into an existing table
\* returns InsertedId(id), and a following SELECT for that id, on a new
\* connection, returns exactly one row whose values for the record's
\* columns equal the inserted values.
C5_Original ==
    /\ C5_Valid => out.tag = "InsertedId"
    /\ (call.op = "insert_row" /\ out.tag = "InsertedId") =>
          /\ C5_SelectBack.tag = "Rows"
          /\ Len(C5_SelectBack.ret) = 1
          /\ \A i \in 1..Len(call.data.keys) :
                C5_SelectBack.ret[1][call.data.keys[i]] = call.data.vals[i]

\* C5 amended: as stated, but a value equals the inserted one only when the
\* store keeps it as given; a value the column's affinity converts, or a
\* NULL given for the integer primary key, comes back as stored.
C5_Amended ==
    /\ C5_Valid => out.tag = "InsertedId"
    /\ (call.op = "insert_row" /\ out.tag = "InsertedId") =>
          /\ C5_SelectBack.tag = "Rows"
          /\ Len(C5_SelectBack.ret) = 1
          /\ \A i \in 1..Len(call.data.keys) :
                C5_KeptAsGiven(i) =>
                    C5_SelectBack.ret[1][call.data.keys[i]] = call.data.vals[i]

\* a second row was inserted into t and read back by its generated id
C5_Witness ==
    /\ call.op = "insert_row"
    /\ call.table = S_t
    /\ call.data = Dict(<<S_name>>, <<PyStr(<<"a">>)>>)
    /\ out.ret = <<Dict1(S_inserted_id, PyInt(2))>>
    /\ Len(C5_SelectBack.ret) = 1
    /\ C5_SelectBack.ret[1][S_name] = PyStr(<<"a">>)

\* C6: every call opens at most one connection and has released it when it
\* returns, on every exit path; no connection is open between calls and a
\* call uses only the connection it opened itself.
C6_ConnectionScoped ==
    /\ openConns = 0
    /\ Count(out.trace, "connect_ok") + Count(out.trace, "connect_err") <= 1
    /\ IF "connect_ok" \in Events(out.trace)
       THEN /\ out.trace[1] = "connect_ok"
            /\ out.trace[Len(out.trace)] = "close"
            /\ Count(out.trace, "close") = 1
       ELSE out.trace \in {<<>>, <<"connect_err">>}

\* a commit failed and the connection was closed all the same
C6_Witness ==
    /\ call.fault = "disk_io"
    /\ "commit_err" \in Events(out.trace)
    /\ out.trace[Len(out.trace)] = "close"
    /\ openConns = 0

C8_Original ==
    (/\ call.op \in {"insert_row", "update_rows", "delete_rows", "add_column"}
     /\ Events(out.trace) \cap {"execute_ok", "execute_err"} # {})
       => /\ IsIdentifier(call.table)
          /\ \A i \in 1..Len(call.data.keys) : IsIdentifier(call.data.keys[i])
          /\ \A i \in 1..Len(call.where.keys) : IsIdentifier(call.where.keys[i])
          /\ call.op = "add_column" => IsIdentifier(call.column)

\* the values execute_sql_query returns for a Failure
C9_FailureValues ==
    {<<Dict1(S_error, PyStr(m))>> :
        m \in {M_cannot_open, M_locked, M_not_a_db, M_disk_io, M_syntax_near}}

\* the values execute_sql_query returns for Affected(n)
C9_AffectedValues ==
    {<<Dict1(S_rows_affected, PyInt(n))>> : n \in -1..MaxRows}

\* C9: the variant of a result can be told from the returned value: no
\* Rows result of execute_sql_query is the same value as a Failure or an
\* Affected result.
C9_Original ==
    (call.op = "execute_sql_query" /\ out.tag = "Rows") =>
        out.ret \notin (C9_FailureValues \cup C9_AffectedValues)

\* the tables a user created: every table but those whose name starts with
\* the reserved prefix sqlite_
C10_UserTables(d) ==
    {d[i].name : i \in {j \in 1..Len(d) : ~StartsWith(Lower(d[j].name), S_reserved_prefix)}}

\* C10: list_tables returns every user table and leaves out only the
\* internal catalog tables; get_database_schema returns an entry for each
\* of the same tables with its columns in declaration order; neither
\* writes to the store.
C10_Original ==
    /\ (call.op = "list_tables" /\ out.tag = "Rows") =>
          /\ {out.ret[k][2] : k \in 1..Len(out.ret)} = C10_UserTables(db)
          /\ db = pre
    /\ (call.op = "get_database_schema" /\ out.tag = "Rows") =>
          /\ {out.ret[k][S_table][2] : k \in 1..Len(out.ret)} = C10_UserTables(db)
          /\ \A k \in 1..Len(out.ret) :
                LET tbl == db[TableIdx(db, out.ret[k][S_table][2])]
                    cols == out.ret[k][S_columns][2]
                IN [j \in 1..Len(cols) |-> cols[j][S_name][2]] = ColNames(tbl)
          /\ db = pre


=============================================================================
